---- MODULE Spec2Model ----
(***************************************************************************)
(* Model of src/main.py: the Form D filings pipeline (search fetch, hit    *)
(* normalisation, per-record detail-page enrichment, filtering) and the    *)
(* Streamlit script around it (sidebar chat block, main()).                *)
(*                                                                         *)
(* Strings are sequences of one-character strings; a fixed piece of text   *)
(* that the code never looks inside (a URL prefix, a label) is one token.  *)
(* A Python dict is a function from its keys.                              *)
(***************************************************************************)
EXTENDS Integers, Sequences, FiniteSets, TLC

VARIABLES
    pc,                 \* position of the script: "idle" | "enrich"
    openai_api_key,     \* the sidebar's text input (line 20)
    chatbot_messages,   \* st.session_state["chatbot_messages"]
    filing_results,     \* st.session_state["filing_results"]
    results,            \* clean_up's list `results`
    idx,                \* add_and_edit's loop position in `results` (1-based)
    filings,            \* main's local `filings` of the most recent query
    shown,              \* what the last script run put on the page
    requested,          \* detail-page URLs requested by the current query
    response,           \* outcome of the last HTTP request of the script run
    item,               \* one search hit (hit-level specification)
    soup,               \* one parsed detail page (page-level specification)
    company,            \* the record being built from `item` or `soup`
    related_persons,    \* the list extract_related_persons returned (line 138)
    step                \* position inside the hit-level / page-level run

vars == <<pc, openai_api_key, chatbot_messages, filing_results, results, idx,
          filings, shown, requested, response, item, soup, company, related_persons,
          step>>

flowVars == <<pc, openai_api_key, chatbot_messages, filing_results, results,
              idx, filings, shown, requested, response>>

(***************************************************************************)
(* Bounds                                                                  *)
(***************************************************************************)
MaxHits == 2
MaxMsgs == 3
MaxCiks == 2
MaxRows == 3
MaxPhoneRows == 2
MaxOfferRows == 2

(***************************************************************************)
(* Strings                                                                 *)
(***************************************************************************)
RECURSIVE lstrip0(_)
\* str.lstrip('0')
lstrip0(s) == IF s # <<>> /\ Head(s) = "0" THEN lstrip0(Tail(s)) ELSE s

\* str.replace('-', '')
remove_hyphens(s) == SelectSeq(s, LAMBDA c : c # "-")

RECURSIVE join(_, _)
\* sep.join(parts)
join(sep, parts) ==
    IF parts = <<>> THEN <<>>
    ELSE IF Len(parts) = 1 THEN parts[1]
    ELSE parts[1] \o sep \o join(sep, Tail(parts))

COMMA_SPACE == <<",", " ">>

RECURSIVE lstrip_ws(_)
lstrip_ws(s) == IF s # <<>> /\ Head(s) = " " THEN lstrip_ws(Tail(s)) ELSE s

RECURSIVE rstrip_ws(_)
rstrip_ws(s) ==
    IF s # <<>> /\ s[Len(s)] = " " THEN rstrip_ws(SubSeq(s, 1, Len(s) - 1)) ELSE s

\* get_text(strip=True) / str.strip() on a single text node
strip(s) == rstrip_ws(lstrip_ws(s))

Reverse(s) == [i \in 1..Len(s) |-> s[Len(s) + 1 - i]]

\* All sequences over S of length lo..hi
SeqsOf(S, lo, hi) == UNION {[1..n -> S] : n \in lo..hi}

(***************************************************************************)
(* Python values                                                           *)
(***************************************************************************)
None == [some |-> FALSE, val |-> <<>>]
Some(v) == [some |-> TRUE, val |-> v]

\* main's local `filings`: not assigned yet, None, or a list of records
Unset == [kind |-> "unset", val |-> <<>>]
NoFilings == [kind |-> "None", val |-> <<>>]
List(rs) == [kind |-> "list", val |-> rs]

\* dict.get(key, default)
Get(d, key, default) == IF key \in DOMAIN d THEN d[key] ELSE default

\* A normal return of a function, or an exception leaving it
Return(v) == [ok |-> TRUE, val |-> v]
Raise(e) == [ok |-> FALSE, val |-> e]

(***************************************************************************)
(* Hit normalisation: the per-hit part of clean_up (lines 57-80)           *)
(***************************************************************************)
URL_PREFIX == "https://www.sec.gov/Archives/edgar/data/"
URL_SUFFIX == "/xslFormDX01/primary_doc.xml"
A_OPEN == "<a href=\""
A_CLOSE == "\" target=\"_blank\">Link</a>"
NO_LINKS == <<"No links available">>
UNKNOWN == <<"Unknown">>
N_A == <<"N", "/", "A">>

\* line 63 without cik.lstrip("0")
anchor_unstripped(cik, adsh_cleaned) ==
    <<A_OPEN, URL_PREFIX>> \o cik \o <<"/">> \o adsh_cleaned
        \o <<URL_SUFFIX, A_CLOSE>>

\* the f-string of line 63 for one cik
anchor(cik, adsh_cleaned) ==
    <<A_OPEN, URL_PREFIX>> \o lstrip0(cik) \o <<"/">> \o adsh_cleaned
        \o <<URL_SUFFIX, A_CLOSE>>

\* lines 60-67
edgar_links(source) ==
    IF "ciks" \in DOMAIN source /\ Get(source, "adsh", <<>>) # <<>>
    THEN LET adsh_cleaned == remove_hyphens(source["adsh"])
         IN  join(COMMA_SPACE,
                  [i \in 1..Len(source["ciks"]) |->
                      anchor(source["ciks"][i], adsh_cleaned)])
    ELSE NO_LINKS

\* line 70
cik_cleaned(source) ==
    LET ciks == Get(source, "ciks", <<>>)
    IN  [i \in 1..Len(ciks) |-> lstrip0(ciks[i])]

\* lines 72-79: the record built from one hit's _source
result(source) ==
    [k \in {"CIK", "Company Name", "File Date", "Business Location(s)",
            "ADSH", "Edgar"} |->
        CASE k = "CIK" -> join(COMMA_SPACE, cik_cleaned(source))
          [] k = "Company Name" ->
                join(COMMA_SPACE, Get(source, "display_names", <<>>))
          [] k = "File Date" -> Get(source, "file_date", UNKNOWN)
          [] k = "Business Location(s)" ->
                join(COMMA_SPACE, Get(source, "biz_locations", <<>>))
          [] k = "ADSH" -> remove_hyphens(Get(source, "adsh", N_A))
          [] k = "Edgar" -> edgar_links(source)]

\* lines 129-132 of add_and_edit: the URL of the record's detail page
newLink(comp) ==
    <<URL_PREFIX>> \o lstrip0(comp["CIK"]) \o <<"/">>
        \o remove_hyphens(comp["ADSH"]) \o <<URL_SUFFIX>>

(***************************************************************************)
(* Detail pages.  A page (soup) has three parts, in document order:        *)
(*   phone : the rows of the table holding the issuer's address headers,   *)
(*   rp    : the tables with summary="Related Persons", each a list of     *)
(*           rows,                                                         *)
(*   offer : the rows holding the offering amounts.                        *)
(* A row is the list of its cells in document order, a cell is             *)
(* [tag, text].                                                            *)
(***************************************************************************)
PHONE_LABEL == <<"Phone Number of Issuer">>
OFFER_LABEL == <<"Total Offering Amount">>
SOLD_LABEL == <<"Total Amount Sold">>
NOT_FOUND == <<"Not Found">>
INDEFINITE == <<"Indefinite">>

Cell(tag, text) == [tag |-> tag, text |-> text]

\* element.find_all(tag) inside one row
find_all(row, tag) == SelectSeq(row, LAMBDA c : c.tag = tag)

RECURSIVE Flatten(_)
\* the cells of a list of rows in document order
Flatten(rows) == IF rows = <<>> THEN <<>> ELSE Head(rows) \o Flatten(Tail(rows))

\* the least index at which the sequence of booleans b is TRUE, 0 if none
FirstIndex(b) ==
    IF \E i \in 1..Len(b) : b[i]
    THEN CHOOSE i \in 1..Len(b) : b[i] /\ \A j \in 1..(i - 1) : ~b[j]
    ELSE 0

\* line 152 (commented out in the source): the columns left in page order
person_name_unreversed(cols) ==
    join(<<" ">>, [i \in 1..Len(cols) |-> strip(cols[i].text)])

\* line 151: one related person's name from the td cells of a row
person_name(cols) ==
    join(<<" ">>, Reverse([i \in 1..Len(cols) |-> strip(cols[i].text)]))

\* lines 147-153: the names one table contributes
table_persons(table) ==
    LET rows == SubSeq(table, 2, IF Len(table) < 3 THEN Len(table) ELSE 3)
        named == SelectSeq(rows, LAMBDA row : find_all(row, "td") # <<>>)
    IN  [i \in 1..Len(named) |-> person_name(find_all(named[i], "td"))]

RECURSIVE persons_of(_)
persons_of(tables) ==
    IF tables = <<>> THEN <<>>
    ELSE table_persons(Head(tables)) \o persons_of(Tail(tables))

\* lines 143-154
extract_related_persons(sp) == persons_of(sp.rp)

\* extract_phone_number with `row = section.parent`: the header's own row
extract_phone_number_own_row(sp) ==
    LET r == FirstIndex([i \in 1..Len(sp.phone) |->
                 \E c \in 1..Len(sp.phone[i]) :
                     /\ sp.phone[i][c].tag = "th"
                     /\ sp.phone[i][c].text = PHONE_LABEL])
        ths == IF r = 0 THEN <<>> ELSE find_all(sp.phone[r], "th")
        tds == IF r = 0 THEN <<>> ELSE find_all(sp.phone[r], "td")
        index == FirstIndex([i \in 1..Len(ths) |-> ths[i].text = PHONE_LABEL])
    IN  IF index = 0 THEN Return(NOT_FOUND)
        ELSE IF Len(tds) > index - 1 THEN Return(strip(tds[index].text))
        ELSE IF tds = <<>> THEN Raise("IndexError")
        ELSE Return(strip(tds[Len(tds)].text))

\* lines 156-172.  section.parent.parent is the element holding the rows:
\* find_all('td') and find_all('th') on it range over every row.
extract_phone_number(sp) ==
    LET cells == Flatten(sp.phone)
        ths == find_all(cells, "th")
        tds == find_all(cells, "td")
        index == FirstIndex([i \in 1..Len(ths) |-> ths[i].text = PHONE_LABEL])
    IN  IF index = 0 THEN Return(NOT_FOUND)
        ELSE IF Len(tds) > index - 1 THEN Return(strip(tds[index].text))
        ELSE IF tds = <<>> THEN Raise("IndexError")
        ELSE Return(strip(tds[Len(tds)].text))

\* the nodes of the offer part in document order, each with its row
OfferNodes(rows) ==
    Flatten([r \in 1..Len(rows) |->
                [c \in 1..Len(rows[r]) |->
                    [tag |-> rows[r][c].tag, text |-> rows[r][c].text,
                     row |-> r]]])

\* soup.find(tag, string=label): index of the first match, 0 for None
find(nodes, tag, label) ==
    FirstIndex([i \in 1..Len(nodes) |->
                    nodes[i].tag = tag /\ nodes[i].text = label])

\* element.find_next(tag): the next match in document order, 0 for None
find_next(nodes, i, tag) ==
    IF \E j \in (i + 1)..Len(nodes) : nodes[j].tag = tag
    THEN CHOOSE j \in (i + 1)..Len(nodes) :
            /\ nodes[j].tag = tag
            /\ \A k \in (i + 1)..(j - 1) : nodes[k].tag # tag
    ELSE 0

\* element.find_next_sibling(tag): the next match in the same row, 0 for None
find_next_sibling(nodes, i, tag) ==
    LET sib(j) == nodes[j].tag = tag /\ nodes[j].row = nodes[i].row
    IN  IF \E j \in (i + 1)..Len(nodes) : sib(j)
        THEN CHOOSE j \in (i + 1)..Len(nodes) :
                sib(j) /\ \A k \in (i + 1)..(j - 1) : ~sib(k)
        ELSE 0

\* lines 179-185: total_offering_amount; "unbound" when no branch assigns it
total_offering_amount(nodes, offering_section) ==
    LET nxt == find_next(nodes, offering_section, "td")
    IN  IF nxt = 0 THEN Raise("AttributeError")
        ELSE IF strip(nodes[nxt].text) = <<>>
        THEN LET offering_amount_td ==
                     find_next_sibling(nodes, offering_section, "td")
             IN  IF offering_amount_td = 0 THEN Raise("AttributeError")
                 ELSE LET x_in_checkbox ==
                              find_next(nodes, offering_amount_td, "span")
                      IN  IF x_in_checkbox # 0
                             /\ strip(nodes[x_in_checkbox].text) = <<"X">>
                          THEN Return(INDEFINITE)
                          ELSE Return("unbound")
        ELSE Return(strip(nodes[nxt].text))

\* lines 174-188
extract_offering_amounts(sp) ==
    LET nodes == OfferNodes(sp.offer)
        offering_section == find(nodes, "td", OFFER_LABEL)
        sold_section == find(nodes, "td", SOLD_LABEL)
    IN  IF offering_section # 0 /\ sold_section # 0
        THEN LET total == total_offering_amount(nodes, offering_section)
                 sold == find_next(nodes, sold_section, "td")
             IN  IF ~total.ok THEN total
                 ELSE IF sold = 0 THEN Raise("AttributeError")
                 ELSE IF total.val = "unbound" THEN Raise("UnboundLocalError")
                 ELSE Return(<<total.val, strip(nodes[sold].text)>>)
        ELSE Return(<<NOT_FOUND, NOT_FOUND>>)

SLASH == <<" ", "/", " ">>

\* lines 136-141 of add_and_edit for one record and its parsed page
enrich(comp, sp) ==
    LET phone == extract_phone_number(sp)
        amounts == extract_offering_amounts(sp)
    IN  IF ~phone.ok THEN phone
        ELSE IF ~amounts.ok THEN amounts
        ELSE Return(
            [k \in DOMAIN comp \cup {"Related Persons", "Phone Number",
                    "Total Offering Amount / Amount Raised"} |->
                CASE k = "Related Persons" ->
                        join(COMMA_SPACE, extract_related_persons(sp))
                  [] k = "Phone Number" -> phone.val
                  [] k = "Total Offering Amount / Amount Raised" ->
                        amounts.val[1] \o SLASH \o amounts.val[2]
                  [] OTHER -> comp[k]])

\* lines 84-86: result.pop('CIK', None); result.pop('ADSH', None)
pop_ids(rec) == [k \in DOMAIN rec \ {"CIK", "ADSH"} |-> rec[k]]

\* clean_up without the filter of line 89
unfiltered_results(rs) == rs

\* line 89: [entry for entry in results if entry.get("Related Persons")]
filtered_results(rs) ==
    SelectSeq(rs, LAMBDA entry : Get(entry, "Related Persons", <<>>) # <<>>)

\* lines 84-92: what clean_up returns once add_and_edit has returned
clean_up_return(rs) == filtered_results([i \in 1..Len(rs) |-> pop_ids(rs[i])])

(***************************************************************************)
(* Inputs                                                                  *)
(***************************************************************************)
\* search hits (_source dicts) used by the script-level specification
HIT_SINGLE ==
    [ciks |-> << <<"0", "0", "1", "2">> >>, adsh |-> <<"0", "1", "-", "2">>,
     display_names |-> << <<"A">> >>, file_date |-> <<"d">>,
     biz_locations |-> << <<"N", "Y">> >>]
HIT_MULTI ==
    [ciks |-> << <<"0", "7">>, <<"0", "0", "8">> >>, adsh |-> <<"3", "-", "4">>,
     display_names |-> << <<"B">>, <<"C">> >>, file_date |-> <<"d">>]

\* hits of the hit-level specification
CikStrings ==
    {<<"0", "0", "1", "2">>, <<"7">>, <<"0", "0">>, <<"0", "3", "0">>}
AdshStrings == {<<>>, <<"0", "1", "-", "2">>, <<"-", "3", "-">>}
OtherKeys ==
    {<<>>, [display_names |-> << <<"A">>, <<"B">> >>, file_date |-> <<"d">>,
            biz_locations |-> << <<"N", "Y">> >>]}

HitInputs ==
    {o @@ c @@ a :
        o \in OtherKeys,
        c \in {<<>>} \cup {[ciks |-> l] : l \in SeqsOf(CikStrings, 0, MaxCiks)},
        a \in {<<>>} \cup {[adsh |-> x] : x \in AdshStrings}}

\* rows of a "Related Persons" table
RpRows ==
    {<<>>,
     <<Cell("th", <<"L">>), Cell("th", <<"F">>)>>,
     <<Cell("td", <<"a">>)>>,
     <<Cell("td", <<"a">>), Cell("td", <<" ", "b">>)>>,
     <<Cell("td", <<"b", " ">>), Cell("th", <<"x">>), Cell("td", <<"c">>)>>}

\* rows of the table holding the issuer's phone number
PhoneRows ==
    {<<Cell("th", <<"City">>), Cell("th", PHONE_LABEL)>>,
     <<Cell("th", PHONE_LABEL)>>,
     <<Cell("th", <<"City">>)>>,
     <<Cell("td", <<"x">>), Cell("td", <<" ", "y">>)>>,
     <<Cell("td", <<"z">>)>>,
     <<Cell("th", PHONE_LABEL), Cell("td", <<"p">>)>>,
     <<Cell("th", <<"City">>), Cell("td", <<"x">>), Cell("td", <<"y">>)>>}

\* rows of the offering-amounts part
OfferRows ==
    {<<Cell("td", OFFER_LABEL), Cell("td", <<"$", "1">>)>>,
     <<Cell("td", OFFER_LABEL), Cell("td", <<" ">>)>>,
     <<Cell("td", OFFER_LABEL)>>,
     <<Cell("td", SOLD_LABEL), Cell("td", <<"$", "2", " ">>)>>,
     <<Cell("td", SOLD_LABEL)>>,
     <<Cell("span", <<"X">>)>>,
     <<Cell("span", <<"-">>), Cell("td", <<"u">>)>>,
     <<Cell("td", OFFER_LABEL), Cell("td", <<>>), Cell("span", <<" ", "X">>),
       Cell("td", SOLD_LABEL), Cell("td", <<"$", "2">>)>>}

Soup(phone, rp, offer) == [phone |-> phone, rp |-> rp, offer |-> offer]

\* pages of the page-level specification
PageInputs ==
    {Soup(<<>>, <<t>>, <<>>) : t \in SeqsOf(RpRows, 0, MaxRows + 1)}
    \cup {Soup(<<>>, <<t, u>>, <<>>) : t, u \in SeqsOf(RpRows, 2, 2)}
    \cup {Soup(p, <<>>, <<>>) : p \in SeqsOf(PhoneRows, 0, MaxPhoneRows)}
    \cup {Soup(<<>>, <<>>, o) : o \in SeqsOf(OfferRows, 0, MaxOfferRows)}

\* what a script run leaves on the page: the sidebar's or the handler's
\* notice, and what main() wrote below the inputs
Page(notice, body, table) == [notice |-> notice, body |-> body, table |-> table]

(***************************************************************************)
(* Page-level specification: add_and_edit's body on one record whose page  *)
(* has been fetched and parsed, one statement at a time.                   *)
(***************************************************************************)
FlowIdle ==
    /\ pc = "idle"
    /\ openai_api_key = <<>>
    /\ chatbot_messages = <<>>
    /\ filing_results = None
    /\ results = <<>>
    /\ idx = 0
    /\ filings = Unset
    /\ shown = Page("none", "nothing", <<>>)
    /\ requested = <<>>
    /\ response = "none"

InitPage ==
    /\ FlowIdle
    /\ item = HIT_SINGLE
    /\ soup \in PageInputs
    /\ company = result(item)
    /\ related_persons = <<>>
    /\ step = "persons"

\* line 138
AddRelatedPersons ==
    /\ step = "persons"
    /\ related_persons' = extract_related_persons(soup)
    /\ company' = ("Related Persons" :> join(COMMA_SPACE, related_persons'))
                    @@ company
    /\ step' = "phone"
    /\ UNCHANGED <<flowVars, item, soup>>

\* line 139
AddPhoneNumber ==
    /\ step = "phone"
    /\ LET r == extract_phone_number(soup)
       IN  IF r.ok
           THEN /\ company' = ("Phone Number" :> r.val) @@ company
                /\ step' = "amounts"
           ELSE /\ company' = company
                /\ step' = r.val
    /\ UNCHANGED <<flowVars, item, soup, related_persons>>

\* lines 140-141
AddOfferingAmounts ==
    /\ step = "amounts"
    /\ LET r == extract_offering_amounts(soup)
       IN  IF r.ok
           THEN /\ company' =
                      ("Total Offering Amount / Amount Raised" :>
                          r.val[1] \o SLASH \o r.val[2]) @@ company
                /\ step' = "done"
           ELSE /\ company' = company
                /\ step' = r.val
    /\ UNCHANGED <<flowVars, item, soup, related_persons>>

NextPage == AddRelatedPersons \/ AddPhoneNumber \/ AddOfferingAmounts

SpecPage == InitPage /\ [][NextPage]_vars

(***************************************************************************)
(* Properties of the page-level specification                              *)
(***************************************************************************)
\* the td texts of a row, in column order
TdTexts(row) ==
    LET tds == SelectSeq(row, LAMBDA c : c.tag = "td")
    IN  [i \in 1..Len(tds) |-> tds[i].text]

RECURSIVE ReversedName(_)
\* the stripped texts, last column first, separated by single spaces
ReversedName(texts) ==
    IF Len(texts) = 1 THEN strip(texts[1])
    ELSE ReversedName(Tail(texts)) \o <<" ">> \o strip(Head(texts))

\* line 138 has run on a page with exactly one Related Persons table, made
\* of a header row followed by data rows (rows that have td cells)
C3_Case ==
    /\ step # "persons"
    /\ Len(soup.rp) = 1
    /\ soup.rp[1] # <<>>
    /\ \A i \in 2..Len(soup.rp[1]) : TdTexts(soup.rp[1][i]) # <<>>

\* C3: for a page with exactly one Related Persons table that has a header
\* row followed by n data rows, extract_related_persons returns exactly
\* min(n, 2) names, the i-th being the cell texts of the i-th data row joined
\* in reverse column order; later data rows contribute nothing.
C3_RelatedPersons ==
    C3_Case =>
        LET table == soup.rp[1]
            n == Len(table) - 1
            m == IF n < 2 THEN n ELSE 2
        IN  /\ Len(related_persons) = m
            /\ \A i \in 1..m :
                    related_persons[i] = ReversedName(TdTexts(table[i + 1]))

\* C3 witness: three data rows, the first with two columns, two names returned
C3_Witness ==
    /\ C3_Case
    /\ Len(soup.rp[1]) = 4
    /\ Len(TdTexts(soup.rp[1][2])) = 2
    /\ Len(related_persons) = 2
    /\ related_persons[1] = <<"b", " ", "a">>

\* positions <<row, column>> of the cells of the phone table
PhonePos ==
    UNION {{<<r, c>> : c \in 1..Len(soup.phone[r])} : r \in 1..Len(soup.phone)}

PhoneCell(p) == soup.phone[p[1]][p[2]]

\* document order on positions
Before(p, q) == p[1] < q[1] \/ (p[1] = q[1] /\ p[2] < q[2])

IsPhoneHeader(p) == PhoneCell(p).tag = "th" /\ PhoneCell(p).text = PHONE_LABEL

HasPhoneHeader == \E p \in PhonePos : IsPhoneHeader(p)

\* the first header cell with text exactly "Phone Number of Issuer"
HeaderPos ==
    CHOOSE p \in PhonePos :
        IsPhoneHeader(p) /\ \A q \in PhonePos : IsPhoneHeader(q) => ~Before(q, p)

\* the cell of the set S of td positions that has k cells of S before it, or
\* the last cell of S when S has no more than k cells
CellAt(S, k) ==
    IF \E q \in S : Cardinality({t \in S : Before(t, q)}) = k
    THEN CHOOSE q \in S : Cardinality({t \in S : Before(t, q)}) = k
    ELSE CHOOSE q \in S : \A t \in S : ~Before(q, t)

TableTds == {p \in PhonePos : PhoneCell(p).tag = "td"}
TableThsBefore ==
    {p \in PhonePos : PhoneCell(p).tag = "th" /\ Before(p, HeaderPos)}
RowTds == {p \in TableTds : p[1] = HeaderPos[1]}
RowThsBefore == {p \in TableThsBefore : p[1] = HeaderPos[1]}

PhoneReturned == "Phone Number" \in DOMAIN company

C6_NoFailure == step \notin {"IndexError", "AttributeError", "UnboundLocalError"}

(***************************************************************************)
(* Hit-level specification: one hit through clean_up's loop body and the   *)
(* request add_and_edit issues for its record.                             *)
(***************************************************************************)
InitHit ==
    /\ FlowIdle
    /\ item \in HitInputs
    /\ soup = Soup(<<>>, <<>>, <<>>)
    /\ company = <<>>
    /\ related_persons = <<>>
    /\ step = "hit"

\* lines 58-80
BuildResult ==
    /\ step = "hit"
    /\ company' = result(item)
    /\ step' = "built"
    /\ UNCHANGED <<flowVars, item, soup, related_persons>>

\* lines 129-134
RequestDetailPage ==
    /\ step = "built"
    /\ requested' = Append(requested, newLink(company))
    /\ step' = "requested"
    /\ UNCHANGED <<pc, openai_api_key, chatbot_messages, filing_results,
                   results, idx, filings, shown, response, item, soup,
                   company, related_persons>>

NextHit == BuildResult \/ RequestDetailPage

SpecHit == InitHit /\ [][NextHit]_vars

(***************************************************************************)
(* Properties of the hit-level specification                               *)
(***************************************************************************)
\* s without its leading zeros: the suffix after the longest run of "0"
WithoutLeadingZeros(s) ==
    LET k == CHOOSE k \in 0..Len(s) :
                /\ \A i \in 1..k : s[i] = "0"
                /\ k = Len(s) \/ s[k + 1] # "0"
    IN  SubSeq(s, k + 1, Len(s))

RECURSIVE WithoutHyphens(_)
\* s without its hyphens, built from the right end
WithoutHyphens(s) ==
    IF s = <<>> THEN <<>>
    ELSE LET init == WithoutHyphens(SubSeq(s, 1, Len(s) - 1))
         IN  IF s[Len(s)] = "-" THEN init ELSE Append(init, s[Len(s)])

\* the detail-page URL of a numeric identifier and an accession number
ExpectedUrl(cik, adsh) ==
    <<"https://www.sec.gov/Archives/edgar/data/">> \o WithoutLeadingZeros(cik)
        \o <<"/">> \o WithoutHyphens(adsh) \o <<"/xslFormDX01/primary_doc.xml">>

\* the record of a hit with exactly one CIK and a non-empty accession number
C2_Case ==
    /\ step # "hit"
    /\ "ciks" \in DOMAIN item
    /\ Len(item.ciks) = 1
    /\ "adsh" \in DOMAIN item
    /\ item.adsh # <<>>

\* C2 as stated: for a hit with exactly one CIK and a non-empty accession
\* number, the record's link equals the detail-page URL itself.
C2_LinkIsUrl == C2_Case => company["Edgar"] = ExpectedUrl(item.ciks[1], item.adsh)

\* C2 amended: the record's link is the HTML anchor
\* <a href="URL" target="_blank">Link</a> whose href is that URL.
C2_LinkIsAnchor ==
    C2_Case =>
        company["Edgar"]
            = <<"<a href=\"">> \o ExpectedUrl(item.ciks[1], item.adsh)
                \o <<"\" target=\"_blank\">Link</a>">>

\* C2 witness: ciks = ["0012"], adsh = "01-2"
C2_Witness ==
    /\ C2_Case
    /\ item.ciks[1] = <<"0", "0", "1", "2">>
    /\ item.adsh = <<"0", "1", "-", "2">>
    /\ company["Edgar"]
        = <<"<a href=\"", "https://www.sec.gov/Archives/edgar/data/",
            "1", "2", "/", "0", "1", "2", "/xslFormDX01/primary_doc.xml",
            "\" target=\"_blank\">Link</a>">>

\* C8 as stated: for every hit that has identifiers and an accession number,
\* several CIKs included, the detail-page request goes to the URL built from
\* one of the hit's identifiers (leading zeros stripped) and its accession
\* number (hyphens removed).
C8_RequestUrl ==
    (/\ step = "requested"
     /\ "ciks" \in DOMAIN item
     /\ item.ciks # <<>>
     /\ "adsh" \in DOMAIN item) =>
        \E i \in 1..Len(item.ciks) :
            requested[Len(requested)] = ExpectedUrl(item.ciks[i], item.adsh)

(***************************************************************************)
(* Script-level specification: the Streamlit script, one action per script *)
(* run, a query run split at its HTTP requests.                            *)
(***************************************************************************)
PAGE_FULL ==
    Soup(<< <<Cell("th", <<"City">>), Cell("th", PHONE_LABEL)>>,
            <<Cell("td", <<"x">>), Cell("td", <<" ", "y">>)>> >>,
         << << <<Cell("th", <<"L">>), Cell("th", <<"F">>)>>,
               <<Cell("td", <<"a">>), Cell("td", <<" ", "b">>)>>,
               <<Cell("td", <<"c">>)>> >> >>,
         << <<Cell("td", OFFER_LABEL), Cell("td", <<"$", "1">>)>>,
            <<Cell("td", SOLD_LABEL), Cell("td", <<"$", "2", " ">>)>> >>)
PAGE_EMPTY == Soup(<<>>, <<>>, <<>>)
PAGE_BLANK_AMOUNT ==
    Soup(<<>>, <<>>,
         << <<Cell("td", OFFER_LABEL), Cell("td", <<" ">>)>>,
            <<Cell("td", SOLD_LABEL), Cell("td", <<"$", "2">>)>> >>)

PageSamples == {PAGE_FULL, PAGE_EMPTY, PAGE_BLANK_AMOUNT}

FlowHits == {HIT_SINGLE, HIT_MULTI}

ApiKeys == {<<>>, <<"k">>}
Prompts == {<<"q">>}
Replies == {<<"r">>}

Message(role, content) == [role |-> role, content |-> content]

\* line 24
GREETING == Message("assistant", <<"Ask me anything about the Form D filings">>)

\* fetch_sec_filings without its except clause
catches_nothing(exc) == FALSE

\* line 49: except requests.RequestException
catches(exc) == exc = "RequestException"

\* line 118 appending to the stored records instead of replacing them
stored_after_query_merged(stored, ret) ==
    IF ret.kind = "list" /\ ret.val # <<>> THEN Some(stored.val \o ret.val)
    ELSE stored

\* lines 116-122: main after fetch_sec_filings returned ret
stored_after_query(stored, ret) ==
    IF ret.kind = "list" /\ ret.val # <<>> THEN Some(ret.val) ELSE stored

written_after_query(ret) ==
    IF ret.kind = "list" /\ ret.val # <<>> THEN Page("none", "table", ret.val)
    ELSE Page("none", "no_filings", <<>>)

\* lines 123-125: main when the button was not pressed
written_without_query(stored) ==
    IF stored.some THEN Page("none", "table", stored.val)
    ELSE Page("none", "nothing", <<>>)

\* lines 45-51 and 115-122: exception exc is raised inside the try block of
\* fetch_sec_filings, which main called at line 115
AfterRaise(exc) ==
    IF catches(exc)
    THEN /\ filings' = NoFilings
         /\ filing_results' = stored_after_query(filing_results, NoFilings)
         /\ shown' = [written_after_query(NoFilings) EXCEPT !.notice = "error"]
    ELSE /\ filings' = Unset
         /\ filing_results' = filing_results
         /\ shown' = Page("exception", "crashed", <<>>)

Init ==
    /\ pc = "idle"
    /\ openai_api_key = <<>>
    /\ chatbot_messages = <<GREETING>>
    /\ filing_results = None
    /\ results = <<>>
    /\ idx = 0
    /\ filings = Unset
    /\ shown = Page("none", "nothing", <<>>)
    /\ requested = <<>>
    /\ response = "none"
    /\ item = <<>>
    /\ soup = PAGE_EMPTY
    /\ company = <<>>
    /\ related_persons = <<>>
    /\ step = "script"

otherVars == <<item, soup, company, related_persons, step>>

\* a script rerun with no chat input and no button press (a date input
\* changed): lines 17-29, then main with line 123
Rerun ==
    /\ pc = "idle"
    /\ shown' = written_without_query(filing_results)
    /\ response' = "none"
    /\ UNCHANGED <<pc, openai_api_key, chatbot_messages, filing_results,
                   results, idx, filings, requested, otherVars>>

\* the key field is edited (line 20); the script reruns as in Rerun
SetApiKey ==
    /\ pc = "idle"
    /\ \E k \in ApiKeys : k # openai_api_key /\ openai_api_key' = k
    /\ shown' = written_without_query(filing_results)
    /\ response' = "none"
    /\ UNCHANGED <<pc, chatbot_messages, filing_results, results, idx,
                   filings, requested, otherVars>>

\* lines 29-32: a chat message is submitted and no key is set; st.stop()
\* ends the script run
ChatWithoutKey ==
    /\ pc = "idle"
    /\ openai_api_key = <<>>
    /\ \E prompt \in Prompts : shown' = Page("info", "not_run", <<>>)
    /\ response' = "none"
    /\ UNCHANGED <<pc, openai_api_key, chatbot_messages, filing_results,
                   results, idx, filings, requested, otherVars>>

\* lines 29-40 with a key, then main with line 123; the completion call
\* returns a reply or raises
ChatWithKey ==
    /\ pc = "idle"
    /\ openai_api_key # <<>>
    /\ Len(chatbot_messages) + 2 <= MaxMsgs
    /\ \E prompt \in Prompts :
        \/ \E msg \in Replies :
            /\ chatbot_messages' =
                  chatbot_messages \o
                      <<Message("user", prompt), Message("assistant", msg)>>
            /\ shown' = written_without_query(filing_results)
        \/ /\ chatbot_messages' = Append(chatbot_messages, Message("user", prompt))
           /\ shown' = Page("exception", "not_run", <<>>)
    /\ response' = "none"
    /\ UNCHANGED <<pc, openai_api_key, filing_results, results, idx, filings,
                   requested, otherVars>>

\* button pressed; lines 44-47 raise (network error or non-2xx status)
SearchRequestFails ==
    /\ pc = "idle"
    /\ response' = "search_failed"
    /\ requested' = <<>>
    /\ results' = <<>>
    /\ idx' = 0
    /\ AfterRaise("RequestException")
    /\ UNCHANGED <<pc, openai_api_key, chatbot_messages, otherVars>>

\* button pressed; lines 44-48 and 54-80: the search answers with hits and
\* clean_up builds one record per hit
SearchReturns ==
    /\ pc = "idle"
    /\ \E hits \in SeqsOf(FlowHits, 0, MaxHits) :
        results' = [i \in 1..Len(hits) |-> result(hits[i])]
    /\ response' = "search_ok"
    /\ requested' = <<>>
    /\ idx' = 1
    /\ filings' = Unset
    /\ shown' = Page("none", "running", <<>>)
    /\ pc' = "enrich"
    /\ UNCHANGED <<openai_api_key, chatbot_messages, filing_results, otherVars>>

\* add_and_edit catching the error itself and going on with the next record
DetailRequestFails_isolated ==
    /\ pc = "enrich"
    /\ idx <= Len(results)
    /\ requested' = Append(requested, newLink(results[idx]))
    /\ response' = "detail_failed"
    /\ idx' = idx + 1
    /\ UNCHANGED <<pc, filings, filing_results, shown, openai_api_key,
                   chatbot_messages, results, otherVars>>

\* lines 128-134: the detail-page request of record idx raises
DetailRequestFails ==
    /\ pc = "enrich"
    /\ idx <= Len(results)
    /\ requested' = Append(requested, newLink(results[idx]))
    /\ response' = "detail_failed"
    /\ AfterRaise("RequestException")
    /\ pc' = "idle"
    /\ UNCHANGED <<openai_api_key, chatbot_messages, results, idx, otherVars>>

\* lines 128-141: one iteration of add_and_edit's loop on a fetched page
EnrichRecord ==
    /\ pc = "enrich"
    /\ idx <= Len(results)
    /\ requested' = Append(requested, newLink(results[idx]))
    /\ response' = "detail_ok"
    /\ \E page \in PageSamples :
        LET r == enrich(results[idx], page)
        IN  IF r.ok
            THEN /\ results' = [results EXCEPT ![idx] = r.val]
                 /\ idx' = idx + 1
                 /\ UNCHANGED <<pc, filings, filing_results, shown>>
            ELSE /\ AfterRaise(r.val)
                 /\ pc' = "idle"
                 /\ UNCHANGED <<results, idx>>
    /\ UNCHANGED <<openai_api_key, chatbot_messages, otherVars>>

\* lines 84-92 and 116-122: the loop is over, clean_up returns, main stores
\* and renders
ReturnFilings ==
    /\ pc = "enrich"
    /\ idx > Len(results)
    /\ filings' = List(clean_up_return(results))
    /\ filing_results' = stored_after_query(filing_results, filings')
    /\ shown' = written_after_query(filings')
    /\ pc' = "idle"
    /\ UNCHANGED <<openai_api_key, chatbot_messages, results, idx, requested,
                   response, otherVars>>

Next ==
    \/ Rerun
    \/ SetApiKey
    \/ ChatWithoutKey
    \/ ChatWithKey
    \/ SearchRequestFails
    \/ SearchReturns
    \/ DetailRequestFails
    \/ EnrichRecord
    \/ ReturnFilings

Spec == Init /\ [][Next]_vars

(***************************************************************************)
(* Properties of the script-level specification                            *)
(***************************************************************************)
HasPersons(rec) == rec["Related Persons"] # <<>>

\* out is rec without its two identifier fields
SameRecord(out, rec) ==
    /\ DOMAIN out = DOMAIN rec \ {"CIK", "ADSH"}
    /\ \A k \in DOMAIN out : out[k] = rec[k]

\* clean_up has returned a list
C1_Case == pc = "idle" /\ filings.kind = "list"

\* C1: the list clean_up returns is exactly the subsequence of the enriched
\* records whose "Related Persons" is non-empty, in the order of the hits;
\* filtering the returned list again leaves it unchanged.
C1_FilterLaw ==
    C1_Case =>
        LET out == filings.val
            kept == {j \in 1..Len(results) : HasPersons(results[j])}
        IN  /\ \E f \in [1..Len(out) -> 1..Len(results)] :
                /\ \A i, k \in 1..Len(out) : i < k => f[i] < f[k]
                /\ {f[i] : i \in 1..Len(out)} = kept
                /\ \A i \in 1..Len(out) : SameRecord(out[i], results[f[i]])
            /\ \A i \in 1..Len(out) : HasPersons(out[i])

\* C1 witness: two enriched records, the first without related persons and
\* dropped, the second kept
C1_Witness ==
    /\ C1_Case
    /\ Len(results) = 2
    /\ ~HasPersons(results[1])
    /\ HasPersons(results[2])
    /\ Len(filings.val) = 1

\* C4: when the search request fails, the failure is caught and reported,
\* fetch_sec_filings returns None without any detail-page request, and the
\* run ends in the empty-state message, not in an uncaught error.
C4_SearchFailure ==
    response = "search_failed" =>
        /\ pc = "idle"
        /\ filings = NoFilings
        /\ requested = <<>>
        /\ shown = Page("error", "no_filings", <<>>)

\* C4 witness: a failed search in a session that holds earlier results
C4_Witness ==
    /\ response = "search_failed"
    /\ filing_results.some
    /\ shown.body = "no_filings"

NotEnriched(rec) == "Related Persons" \notin DOMAIN rec

\* C5 as stated: an error raised by the detail-page request of one record is
\* caught nowhere and leaves the query uncaught; no record from the failing
\* one on is enriched.
C5_Uncaught ==
    response = "detail_failed" =>
        /\ shown.notice = "exception"
        /\ filings = Unset
        /\ \A j \in idx..Len(results) : NotEnriched(results[j])

\* C5 amended: the error is caught by the except clause of fetch_sec_filings
\* (clean_up runs inside its try block): it is reported, the query returns
\* None and ends in the empty-state message; no request follows the failing
\* one and no record from the failing one on is enriched.
C5_Caught ==
    response = "detail_failed" =>
        /\ pc = "idle"
        /\ shown = Page("error", "no_filings", <<>>)
        /\ filings = NoFilings
        /\ Len(requested) = idx
        /\ \A j \in idx..Len(results) : NotEnriched(results[j])

\* C5 witness: the request for the first of two records fails
C5_Witness ==
    /\ response = "detail_failed"
    /\ idx = 1
    /\ Len(results) = 2
    /\ shown.notice = "error"

\* C7 as stated: a chat message submitted without a credential halts only the
\* chat; the filings part of the same run still executes and renders the
\* stored results.
C7_FilingsStillRendered ==
    (shown.notice = "info" /\ filing_results.some) =>
        /\ shown.body = "table"
        /\ shown.table = filing_results.val

====
